---- MODULE Spec2Model ----
(***************************************************************************)
(* Model of the hold-to-record component of src/src/App.jsx: the press /   *)
(* release handlers, the hold timer, the asynchronous startRecording, the  *)
(* synchronous stopRecording with the WAV encoder, and the IndexedDB       *)
(* save / load of the latest recording.                                    *)
(*                                                                         *)
(* Every handler invocation is one atomic action (JavaScript runs each     *)
(* callback to completion); startRecording is split at its two awaits.     *)
(* `status` is the value of the React state the handlers close over, i.e.  *)
(* the value of the last render.  A setStatus made inside a pointer        *)
(* handler is rendered before the next event is dispatched; a setStatus    *)
(* made in the continuation of an await is queued (pendingStatus) and      *)
(* rendered by a later step (Render), which may or may not come before the *)
(* next pointer event.                                                     *)
(*                                                                         *)
(* ensureMicPermission acquires a stream of its own and stops it in the    *)
(* same continuation; it touches none of the state below and is left out.  *)
(* Spec explores MaxStarts invocations of startRecording, SpecOverlap one  *)
(* more, so that two capture sessions overlap.                             *)
(***************************************************************************)
EXTENDS Integers, Sequences, FiniteSets, TLC

\* ---------------------------------------------------------------- bounds
\* hold timers pending at the same time
MaxTimers == 2
\* startRecording invocations explored by Spec; SpecOverlap explores one more
\* (each invocation acquires its own stream)
MaxStarts == 1
\* number of frames the capture callback delivers into the buffer
MaxFrames == 1
\* samples are fractions h / Den; the model stores the numerator h
Den == 2
\* most samples per frame in the sessions SpecEncoder starts from
FrameLen == 2

StartIds == 1..(MaxStarts + 1)
\* numerators of the samples a frame may carry: 0.5
FrameSamples == {1}
\* device sample rates (AudioContext.sampleRate)
Rates == {44100}

VARIABLES
  status,          \* useState("idle"): value of the last render
  pendingStatus,   \* setStatus queued outside an event handler, "none" if none
  audioUrl,        \* useState(null): the current recording
  holdTimerRef,    \* position in `timers` of the timer whose id the ref holds;
                   \* 0 when the ref is null or its timer is no longer pending
  isHoldingRef,
  streamRef,       \* 0 = null, else the id of the acquired stream
  audioContextRef,
  processorRef,
  audioDataRef,    \* sequence of frames
  sampleRateRef,
  timers,          \* pending timers, oldest first; an entry is TRUE when
                   \* the current gesture armed it (history)
  nStarts,         \* number of startRecording invocations so far
  att,             \* startRecording invocations, in order of invocation: "gum"
                   \* or "resume" at the await they are suspended at, else "none"
  liveStreams,     \* acquired streams whose tracks are not stopped
  openCtx,         \* audio contexts created and not closed
  connected,       \* script processors connected to their destination
  stored,          \* IndexedDB "recordings"/"latest"
  saveQueue,       \* saveRecording calls awaiting openDB
  loadState,       \* the start-up loadRecording: "pending" or "done"
  gesture,         \* history: the current press gesture
  relArm,          \* history: invocations in flight when a release saw "arming"
  last             \* history: the handler that ran last and what it emitted

vars == <<status, pendingStatus, audioUrl, holdTimerRef, isHoldingRef, streamRef,
          audioContextRef, processorRef, audioDataRef, sampleRateRef, timers,
          nStarts, att, liveStreams, openCtx, connected, stored, saveQueue,
          loadState, gesture, relArm, last>>

refs == <<streamRef, audioContextRef, processorRef, audioDataRef, sampleRateRef>>
devices == <<liveStreams, openCtx, connected>>
artifact == <<audioUrl, stored, saveQueue>>
pressState == <<holdTimerRef, isHoldingRef, timers, nStarts>>

\* ------------------------------------------------------------ the encoder
Min(a, b) == IF a < b THEN a ELSE b
Max(a, b) == IF a > b THEN a ELSE b

\* truncation toward zero of n / d (DataView.setInt16 applies ToInt16)
Trunc(n, d) == IF n >= 0 THEN n \div d ELSE -((-n) \div d)

\* one sample of floatTo16BitPCM without the clamp to [-1, 1]
PCM16NoClamp(h) ==
  IF h < 0 THEN Trunc(h * 32768, Den) ELSE Trunc(h * 32767, Den)

\* one sample of floatTo16BitPCM, on the numerator h of the sample h / Den
PCM16(h) ==
  LET s == Max(-Den, Min(Den, h))
  IN  IF s < 0 THEN Trunc(s * 32768, Den) ELSE Trunc(s * 32767, Den)

floatTo16BitPCM(input) == [i \in 1..Len(input) |-> PCM16(input[i])]

RECURSIVE mergeBuffers(_)
mergeBuffers(buffers) ==
  IF buffers = <<>> THEN <<>>
  ELSE Head(buffers).samples \o mergeBuffers(Tail(buffers))

\* the Blob encodeWAV returns, as the values the code hands to the DataView
\* (`view` lays them out in bytes).  The Uint32 header fields hold every value
\* below 2^32 unchanged, and every value of the model is below 2^31.
encodeWAV(samples, sampleRate) ==
  [ size       |-> 44 + Len(samples) * 2,
    chunkSize  |-> 36 + Len(samples) * 2,
    format     |-> 1,
    channels   |-> 1,
    sampleRate |-> sampleRate,
    byteRate   |-> sampleRate * 2,
    blockAlign |-> 2,
    bits       |-> 16,
    dataSize   |-> Len(samples) * 2,
    pcm        |-> floatTo16BitPCM(samples) ]

\* ----- the bytes of the Blob: the DataView writes of encodeWAV, laid out
\* the n low-order bytes of the two's complement of v, least significant first
LowBytes(v, n) == [i \in 1..n |-> (v \div (256 ^ (i - 1))) % 256]
Reverse(s) == [i \in 1..Len(s) |-> s[Len(s) + 1 - i]]

\* a DataView.setUint32 that ignores its littleEndian argument
setUint32BigEndian(value, littleEndian) == Reverse(LowBytes(value, 4))

\* the bytes DataView.setUint32 / setUint16 / setInt16 store
setUint32(value, littleEndian) ==
  IF littleEndian THEN LowBytes(value, 4) ELSE Reverse(LowBytes(value, 4))
setUint16(value, littleEndian) ==
  IF littleEndian THEN LowBytes(value, 2) ELSE Reverse(LowBytes(value, 2))
setInt16(value, littleEndian) ==
  IF littleEndian THEN LowBytes(value, 2) ELSE Reverse(LowBytes(value, 2))

\* a write of `bytes` into the buffer at byte offset `offset` (from 0)
Put(view, offset, bytes) ==
  [k \in 1..Len(view) |->
     IF k > offset /\ k <= offset + Len(bytes) THEN bytes[k - offset]
     ELSE view[k]]

\* string.charCodeAt(i) of the four tags
RIFF == <<82, 73, 70, 70>>
WAVE == <<87, 65, 86, 69>>
fmt == <<102, 109, 116, 32>>
data == <<100, 97, 116, 97>>

\* writeString(view, offset, string): one setUint8 per character
writeString(view, offset, string) ==
  Put(view, offset, [i \in 1..Len(string) |-> string[i] % 256])

\* the loop of floatTo16BitPCM(view, offset, input) on the values it
\* computed: value i goes to offset + 2 * i
RECURSIVE writePCM(_, _, _)
writePCM(view, offset, values) ==
  IF values = <<>> THEN view
  ELSE writePCM(Put(view, offset, setInt16(Head(values), TRUE)),
                offset + 2, Tail(values))

\* the content of the ArrayBuffer behind a Blob of encodeWAV: zero-filled at
\* its allocation, then written in the order of the code
view(blob) ==
  LET buffer == [k \in 1..blob.size |-> 0]
      v1  == writeString(buffer, 0, RIFF)
      v2  == Put(v1, 4, setUint32(blob.chunkSize, TRUE))
      v3  == writeString(v2, 8, WAVE)
      v4  == writeString(v3, 12, fmt)
      v5  == Put(v4, 16, setUint32(16, TRUE))
      v6  == Put(v5, 20, setUint16(blob.format, TRUE))
      v7  == Put(v6, 22, setUint16(blob.channels, TRUE))
      v8  == Put(v7, 24, setUint32(blob.sampleRate, TRUE))
      v9  == Put(v8, 28, setUint32(blob.byteRate, TRUE))
      v10 == Put(v9, 32, setUint16(blob.blockAlign, TRUE))
      v11 == Put(v10, 34, setUint16(blob.bits, TRUE))
      v12 == writeString(v11, 36, data)
      v13 == Put(v12, 40, setUint32(blob.dataSize, TRUE))
  IN  writePCM(v13, 44, blob.pcm)

\* little-endian readers of a byte sequence at byte offset `offset`
getUint16(bytes, offset) == bytes[offset + 1] + 256 * bytes[offset + 2]
getUint32(bytes, offset) ==
  bytes[offset + 1] + 256 * bytes[offset + 2] + 65536 * bytes[offset + 3]
    + 16777216 * bytes[offset + 4]
getInt16(bytes, offset) ==
  IF getUint16(bytes, offset) >= 32768 THEN getUint16(bytes, offset) - 65536
  ELSE getUint16(bytes, offset)

\* new Float32Array(length) / new ArrayBuffer(44 + 2 * length) throw a
\* RangeError when the allocation cannot be satisfied; a request for no
\* samples always succeeds
AllocMayThrow(length) == length > 0

\* --------------------------------------------------------------- values
NullUrl == [kind |-> "null"]
DefaultUrl == [kind |-> "default"]
ObjectURL(blob) == [kind |-> "blob", blob |-> blob]
NoRecord == [kind |-> "none"]
Record(blob) == [kind |-> "blob", blob |-> blob]
\* a recording saved by an earlier run of the application
PriorBlob == encodeWAV(<<1>>, 44100)

Quiet == [op |-> "none", seen |-> "none", playCalls |-> 0, played |-> FALSE,
          stopCalls |-> 0, encoded |-> FALSE, empty |-> FALSE,
          threw |-> FALSE, started |-> FALSE, alert |-> FALSE, who |-> 0,
          err |-> "none"]

\* pressed: a press was seen; starts: the invocations of startRecording since
\* the gesture's first press; fired: a timer the gesture armed was dispatched
NoGesture == [pressed |-> FALSE, starts |-> {}, fired |-> FALSE,
              released |-> FALSE]

InFlight == {a \in StartIds : att[a] \in {"gum", "resume"}}

Init ==
  /\ status = "idle"
  /\ pendingStatus = "none"
  /\ audioUrl = NullUrl
  /\ holdTimerRef = 0
  /\ isHoldingRef = FALSE
  /\ streamRef = 0
  /\ audioContextRef = 0
  /\ processorRef = 0
  /\ audioDataRef = <<>>
  /\ sampleRateRef = 44100
  /\ timers = <<>>
  /\ nStarts = 0
  /\ att = [a \in StartIds |-> "none"]
  /\ liveStreams = {}
  /\ openCtx = {}
  /\ connected = {}
  /\ stored \in {NoRecord, Record(PriorBlob)}
  /\ saveQueue = <<>>
  /\ loadState = "pending"
  /\ gesture = NoGesture
  /\ relArm = {}
  /\ last = Quiet

\* ------------------------------------------------------------- press logic
handlePressStart ==
  /\ Len(timers) < MaxTimers
  /\ isHoldingRef' = TRUE
  /\ status' = "arming"
  /\ pendingStatus' = "none"
  /\ timers' = Append(IF isHoldingRef THEN timers
                      ELSE [i \in 1..Len(timers) |-> FALSE], TRUE)
  /\ holdTimerRef' = Len(timers) + 1
  /\ gesture' = IF isHoldingRef THEN gesture
                ELSE [NoGesture EXCEPT !.pressed = TRUE]
  /\ last' = [Quiet EXCEPT !.op = "press", !.seen = status]
  /\ UNCHANGED <<refs, devices, artifact, nStarts, att, loadState, relArm>>

\* the callback of the timer armed by handlePressStart; the timers share one
\* delay, so the oldest pending timer is dispatched first; `limit` bounds the
\* invocations of startRecording explored
holdTimeout(limit) ==
  /\ timers # <<>>
  /\ timers' = Tail(timers)
  /\ holdTimerRef' = IF holdTimerRef > 0 THEN holdTimerRef - 1 ELSE 0
  /\ IF isHoldingRef
       THEN /\ nStarts < limit
            /\ nStarts' = nStarts + 1
            /\ att' = [att EXCEPT ![nStarts + 1] = "gum"]
            /\ gesture' = [gesture EXCEPT !.starts = @ \cup {nStarts + 1},
                                          !.fired = @ \/ Head(timers)]
            /\ last' = [Quiet EXCEPT !.op = "timeout", !.seen = status,
                                     !.started = TRUE, !.who = nStarts + 1]
       ELSE /\ UNCHANGED <<nStarts, att>>
            /\ gesture' = [gesture EXCEPT !.fired = @ \/ Head(timers)]
            /\ last' = [Quiet EXCEPT !.op = "timeout", !.seen = status]
  /\ UNCHANGED <<status, pendingStatus, refs, devices, artifact, isHoldingRef,
                 loadState, relArm>>

\* ------------------------------------------------------- startRecording
\* a catch block that reports the error and leaves the status alone
CatchKeepsStatus(a, err) ==
  /\ pendingStatus' = pendingStatus
  /\ att' = [att EXCEPT ![a] = "none"]
  /\ last' = [Quiet EXCEPT !.op = "startRecording", !.seen = status,
                           !.alert = TRUE, !.who = a, !.err = err]

\* the catch block: console.error(err), alert, setStatus("idle")
Catch(a, err) ==
  /\ pendingStatus' = "idle"
  /\ att' = [att EXCEPT ![a] = "none"]
  /\ last' = [Quiet EXCEPT !.op = "startRecording", !.seen = status,
                           !.alert = TRUE, !.who = a, !.err = err]

\* lines 123-141: from the read of the sample rate to the feedback tone
Connect(a, rate, feedbackThrows) ==
  /\ sampleRateRef' = rate
  /\ processorRef' = a
  /\ audioDataRef' = <<>>
  /\ connected' = connected \cup {a}
  /\ IF feedbackThrows
       THEN Catch(a, "feedbackThrows")
       ELSE /\ pendingStatus' = "recording"
            /\ att' = [att EXCEPT ![a] = "none"]
            /\ last' = [Quiet EXCEPT !.op = "startRecording", !.seen = status,
                                     !.who = a]

\* the continuation of `await getUserMedia`
getUserMediaSettled(a, outcome, rate) ==
  /\ att[a] = "gum"
  /\ \/ /\ outcome = "denied"
        /\ Catch(a, outcome)
        /\ UNCHANGED <<refs, devices>>
     \/ /\ outcome = "contextThrows"
        /\ streamRef' = a
        /\ liveStreams' = liveStreams \cup {a}
        /\ Catch(a, outcome)
        /\ UNCHANGED <<audioContextRef, processorRef, audioDataRef,
                       sampleRateRef, openCtx, connected>>
     \/ /\ outcome = "suspended"
        /\ streamRef' = a
        /\ liveStreams' = liveStreams \cup {a}
        /\ audioContextRef' = a
        /\ openCtx' = openCtx \cup {a}
        /\ att' = [att EXCEPT ![a] = "resume"]
        /\ last' = [Quiet EXCEPT !.op = "startRecording", !.seen = status,
                                 !.who = a]
        /\ UNCHANGED <<pendingStatus, processorRef, audioDataRef,
                       sampleRateRef, connected>>
     \/ /\ outcome \in {"running", "feedbackThrows"}
        /\ streamRef' = a
        /\ liveStreams' = liveStreams \cup {a}
        /\ audioContextRef' = a
        /\ openCtx' = openCtx \cup {a}
        /\ Connect(a, rate, outcome = "feedbackThrows")
  /\ status' = status
  /\ UNCHANGED <<artifact, pressState, loadState, gesture, relArm>>

\* the continuation of `await audioContext.resume()`; resume() on a context
\* that was closed in the meantime rejects
resumeSettled(a, outcome, rate) ==
  /\ att[a] = "resume"
  /\ \/ /\ outcome = "rejected"
        /\ Catch(a, outcome)
        /\ UNCHANGED <<refs, devices>>
     \/ /\ outcome \in {"running", "feedbackThrows"}
        /\ a \in openCtx
        /\ Connect(a, rate, outcome = "feedbackThrows")
        /\ UNCHANGED <<streamRef, audioContextRef, liveStreams, openCtx>>
  /\ status' = status
  /\ UNCHANGED <<artifact, pressState, loadState, gesture, relArm>>

\* React renders the state update queued by startRecording
Render ==
  /\ pendingStatus # "none"
  /\ status' = pendingStatus
  /\ pendingStatus' = "none"
  /\ last' = [Quiet EXCEPT !.op = "render", !.seen = status]
  /\ UNCHANGED <<refs, devices, artifact, pressState, att, loadState, gesture,
                 relArm>>

\* processor.onaudioprocess of the processor created by invocation p
onaudioprocess(p, s) ==
  /\ p \in connected
  /\ p \in openCtx
  /\ Len(audioDataRef) < MaxFrames
  /\ audioDataRef' = Append(audioDataRef, [src |-> p, samples |-> <<s>>])
  /\ last' = [Quiet EXCEPT !.op = "frame", !.seen = status]
  /\ UNCHANGED <<status, pendingStatus, streamRef, audioContextRef,
                 processorRef, sampleRateRef, devices, artifact, pressState,
                 att, loadState, gesture, relArm>>

\* ----------------------------------------------- stopRecording, playback
\* playRecording(): TRUE when playbackRef.current.play() is reached
playRecording == audioUrl # NullUrl

\* stopRecording with the policy of treating an empty buffer as a no-op
stopRecordingSkipsEmpty(throws) ==
  LET merged == mergeBuffers(audioDataRef)
      wavBlob == encodeWAV(merged, sampleRateRef)
      heard == [Quiet EXCEPT !.op = "release", !.seen = status,
                             !.stopCalls = 1]
  IN  IF audioContextRef = 0 \/ processorRef = 0 \/ streamRef = 0
        THEN /\ ~throws
             /\ status' = "idle"
             /\ pendingStatus' = "none"
             /\ last' = heard
             /\ UNCHANGED <<devices, artifact>>
        ELSE /\ connected' = connected \ {processorRef}
             /\ openCtx' = openCtx \ {audioContextRef}
             /\ liveStreams' = liveStreams \ {streamRef}
             /\ IF merged = <<>>
                  THEN /\ ~throws
                       /\ status' = "idle"
                       /\ pendingStatus' = "none"
                       /\ last' = [heard EXCEPT !.empty = TRUE]
                       /\ UNCHANGED artifact
                  ELSE IF throws
                    THEN /\ AllocMayThrow(Len(merged))
                         /\ last' = [heard EXCEPT !.threw = TRUE]
                         /\ UNCHANGED <<status, pendingStatus, artifact>>
                    ELSE /\ audioUrl' = ObjectURL(wavBlob)
                         /\ saveQueue' = Append(saveQueue, wavBlob)
                         /\ stored' = stored
                         /\ status' = "idle"
                         /\ pendingStatus' = "none"
                         /\ last' = [heard EXCEPT !.encoded = TRUE]

\* stopRecording(); `throws` is the outcome of the two allocations in
\* mergeBuffers and encodeWAV
stopRecording(throws) ==
  LET merged == mergeBuffers(audioDataRef)
      wavBlob == encodeWAV(merged, sampleRateRef)
      heard == [Quiet EXCEPT !.op = "release", !.seen = status,
                             !.stopCalls = 1]
  IN  IF audioContextRef = 0 \/ processorRef = 0 \/ streamRef = 0
        THEN /\ ~throws
             /\ status' = "idle"
             /\ pendingStatus' = "none"
             /\ last' = heard
             /\ UNCHANGED <<devices, artifact>>
        ELSE /\ connected' = connected \ {processorRef}
             /\ openCtx' = openCtx \ {audioContextRef}
             /\ liveStreams' = liveStreams \ {streamRef}
             /\ IF throws
                  THEN /\ AllocMayThrow(Len(merged))
                       /\ last' = [heard EXCEPT !.threw = TRUE,
                                                !.empty = (merged = <<>>)]
                       /\ UNCHANGED <<status, pendingStatus, artifact>>
                  ELSE /\ audioUrl' = ObjectURL(wavBlob)
                       /\ saveQueue' = Append(saveQueue, wavBlob)
                       /\ stored' = stored
                       /\ status' = "idle"
                       /\ pendingStatus' = "none"
                       /\ last' = [heard EXCEPT !.encoded = TRUE,
                                                !.empty = (merged = <<>>)]

\* handlePressEnd without the test for "arming": every release that does not
\* stop a recording plays
PressEndBranchPlaysWhenIdle ==
  IF status = "recording" THEN "stop" ELSE "play"

\* the branch handlePressEnd takes on the status it closes over
PressEndBranch ==
  IF status = "arming" THEN "play"
  ELSE IF status = "recording" THEN "stop" ELSE "none"

handlePressEnd(throws) ==
  /\ isHoldingRef' = FALSE
  /\ timers' = IF holdTimerRef > 0
                 THEN SubSeq(timers, 1, holdTimerRef - 1)
                        \o SubSeq(timers, holdTimerRef + 1, Len(timers))
                 ELSE timers
  /\ holdTimerRef' = 0
  /\ \/ /\ PressEndBranch = "play"
        /\ ~throws
        /\ status' = "idle"
        /\ pendingStatus' = "none"
        /\ last' = [Quiet EXCEPT !.op = "release", !.seen = status,
                                 !.playCalls = 1, !.played = playRecording]
        /\ relArm' = relArm \cup (InFlight \cap gesture.starts)
        /\ UNCHANGED <<devices, artifact>>
     \/ /\ PressEndBranch = "stop"
        /\ stopRecording(throws)
        /\ relArm' = relArm
     \/ /\ PressEndBranch = "none"
        /\ ~throws
        /\ last' = [Quiet EXCEPT !.op = "release", !.seen = status]
        /\ UNCHANGED <<status, pendingStatus, devices, artifact, relArm>>
  /\ gesture' = IF gesture.pressed THEN [gesture EXCEPT !.released = TRUE]
                ELSE gesture
  /\ UNCHANGED <<refs, nStarts, att, loadState>>

\* ------------------------------------------------------------ persistence
\* the continuation of `await openDB()` in the oldest pending saveRecording
saveRecording(ok) ==
  /\ saveQueue # <<>>
  /\ saveQueue' = Tail(saveQueue)
  /\ stored' = IF ok THEN Record(Head(saveQueue)) ELSE stored
  /\ last' = [Quiet EXCEPT !.op = "save", !.seen = status]
  /\ UNCHANGED <<status, pendingStatus, audioUrl, refs, devices, pressState,
                 att, loadState, gesture, relArm>>

\* request.onsuccess of the start-up loadRecording
loadRecording ==
  /\ loadState = "pending"
  /\ loadState' = "done"
  /\ audioUrl' = IF stored # NoRecord THEN ObjectURL(stored.blob) ELSE DefaultUrl
  /\ last' = [Quiet EXCEPT !.op = "load", !.seen = status]
  /\ UNCHANGED <<status, pendingStatus, stored, saveQueue, refs, devices,
                 pressState, att, gesture, relArm>>

NextWith(limit) ==
  \/ handlePressStart
  \/ holdTimeout(limit)
  \/ \E throws \in BOOLEAN : handlePressEnd(throws)
  \/ \E a \in StartIds, r \in Rates :
       \E o \in {"denied", "contextThrows", "suspended", "running",
                 "feedbackThrows"} : getUserMediaSettled(a, o, r)
  \/ \E a \in StartIds, r \in Rates :
       \E o \in {"rejected", "running", "feedbackThrows"} : resumeSettled(a, o, r)
  \/ Render
  \/ \E p \in StartIds, s \in FrameSamples : onaudioprocess(p, s)
  \/ \E ok \in BOOLEAN : saveRecording(ok)
  \/ loadRecording

Next == NextWith(MaxStarts)

Spec == Init /\ [][Next]_vars

\* the same program with one more invocation of startRecording, so that two
\* capture sessions can overlap
NextOverlap == NextWith(MaxStarts + 1)

SpecOverlap == Init /\ [][NextOverlap]_vars

\* the callbacks the browser owes the program are eventually dispatched: a
\* due timer, the settlement of getUserMedia and of resume(), a queued render
\* and the IndexedDB requests; pointer events and audio frames are not owed
Fairness ==
  /\ WF_vars(holdTimeout(MaxStarts))
  /\ WF_vars(\E a \in StartIds, r \in Rates :
               \E o \in {"denied", "contextThrows", "suspended", "running",
                         "feedbackThrows"} : getUserMediaSettled(a, o, r))
  /\ WF_vars(\E a \in StartIds, r \in Rates :
               \E o \in {"rejected", "running", "feedbackThrows"} :
                 resumeSettled(a, o, r))
  /\ WF_vars(Render)
  /\ WF_vars(\E ok \in BOOLEAN : saveRecording(ok))
  /\ WF_vars(loadRecording)

SpecFair == Init /\ [][Next]_vars /\ Fairness

\* ------------------------------------------------ the encoder on its own
\* numerators of the samples of a test signal: below -1, -1, inside
\* (-1, 0), 0, inside (0, 1), 1 and above 1
Signal == <<-(Den + 1), -Den, -1, 0, 1, Den, Den + 1>>
EncRates == {8000, 44100, 48000}
\* a frame is a window of the signal, repeated cyclically
Window(start, n) ==
  [i \in 1..n |-> Signal[((start + i - 2) % Len(Signal)) + 1]]
EncFrames ==
  {Window(start, n) : start \in 1..Len(Signal), n \in 1..FrameLen}
EncBuffers ==
  UNION {[1..n -> {[src |-> 1, samples |-> f] : f \in EncFrames}] :
           n \in 0..(MaxFrames + 1)}

\* a session in the state recording, the press still held: the first
\* invocation of startRecording connected its processor, the update was
\* rendered and the callback delivered the frames of the buffer
InitEncoder ==
  /\ status = "recording"
  /\ pendingStatus = "none"
  /\ audioUrl = DefaultUrl
  /\ holdTimerRef = 0
  /\ isHoldingRef = TRUE
  /\ streamRef = 1
  /\ audioContextRef = 1
  /\ processorRef = 1
  /\ audioDataRef \in EncBuffers
  /\ sampleRateRef \in EncRates
  /\ timers = <<>>
  /\ nStarts = 1
  /\ att = [a \in StartIds |-> "none"]
  /\ liveStreams = {1}
  /\ openCtx = {1}
  /\ connected = {1}
  /\ stored = NoRecord
  /\ saveQueue = <<>>
  /\ loadState = "done"
  /\ gesture = [pressed |-> TRUE, starts |-> {1}, fired |-> TRUE,
                released |-> FALSE]
  /\ relArm = {}
  /\ last = [Quiet EXCEPT !.op = "render", !.seen = "arming"]

NextEncoder ==
  \/ \E throws \in BOOLEAN : handlePressEnd(throws)
  \/ \E ok \in BOOLEAN : saveRecording(ok)

SpecEncoder == InitEncoder /\ [][NextEncoder]_vars

\* ================================================================ claims

\* C1: a gesture whose release is processed before any hold timer armed by
\* that gesture is dispatched sees no startRecording call, also not from a
\* timer armed by an earlier press.
C1_ShortPressNeverStarts ==
  (gesture.released /\ ~gesture.fired) => gesture.starts = {}

\* C2: between a press and its release startRecording is called at most
\* once, whatever extra presses and timer callbacks are interleaved.
C2_StartsOncePerHold == Cardinality(gesture.starts) <= 1

\* C3: the microphone is released on every exit path: a startRecording that
\* ends in its catch block leaves no live track of the stream it acquired,
\* and whenever the status is idle, no update of it is queued and no
\* startRecording is in progress, no acquired stream has a live track.
C3_MicrophoneReleased ==
  /\ last.alert => last.who \notin liveStreams
  /\ (status = "idle" /\ pendingStatus = "none" /\ InFlight = {})
       => liveStreams = {}

\* C4: at most one capture session exists at any time: the invocations of
\* startRecording in progress, the live streams and the processors that
\* deliver frames all belong to one session.
C4_OneCaptureSession ==
  Cardinality(InFlight \cup liveStreams \cup (connected \cap openCtx)) <= 1

\* C5: a startRecording that fails (getUserMedia denied, or a later step
\* throws) surfaces an error and queues the status idle, never recording; the
\* failing step leaves the rendered status, the current recording, the
\* persisted recording and the pending saves as they were.
C5_FailedStartReturnsToIdle ==
  [][ last'.err # "none" =>
        /\ last'.alert
        /\ pendingStatus' = "idle"
        /\ status' = status
        /\ att'[last'.who] = "none"
        /\ UNCHANGED artifact ]_vars

\* C5 witness: the start failed after getUserMedia succeeded, the release
\* having been processed before the failure.
C5_Witness ==
  /\ last.err \in {"contextThrows", "feedbackThrows"}
  /\ last.who \in liveStreams
  /\ ~isHoldingRef
  /\ pendingStatus = "idle"

\* C6: a release processed while the status is recording leaves the status
\* idle and calls stopRecording once, which stops frame delivery, encodes the
\* captured buffer, makes the result the current recording and hands it to
\* saveRecording.
C6_ReleaseWhileRecordingStops ==
  (last.op = "release" /\ last.seen = "recording") =>
     LET blob == encodeWAV(mergeBuffers(audioDataRef), sampleRateRef)
     IN  /\ status = "idle"
         /\ last.stopCalls = 1
         /\ last.encoded
         /\ connected \cap openCtx = {}
         /\ audioUrl = ObjectURL(blob)
         /\ saveQueue # <<>>
         /\ saveQueue[Len(saveQueue)] = blob

\* C7: a release processed while the status is arming leaves the status
\* idle, emits one play request, neither starts nor stops capture, and no
\* startRecording the gesture had in flight starts capturing afterwards.
C7_ReleaseWhileArmingOnlyPlays ==
  /\ (last.op = "release" /\ last.seen = "arming") =>
        /\ status = "idle"
        /\ last.playCalls = 1
        /\ last.stopCalls = 0
        /\ ~last.started
  /\ \A a \in relArm : a \notin connected

C9_StopAlwaysReturnsToIdle == last.stopCalls = 1 => status = "idle"

\* C10 (as claimed): a stop with an empty buffer encodes and saves nothing
\* and keeps the current and the persisted recording.
C10_EmptyStopIsNoOp ==
  [][ (last'.op = "release" /\ last'.stopCalls = 1 /\ last'.empty) =>
        (~last'.encoded /\ UNCHANGED artifact) ]_vars

\* C10 (amended): a stop with an empty buffer encodes it all the same: the
\* header-only container of 44 bytes with data size 0 becomes the current
\* recording and is handed to saveRecording, and the status returns to idle.
C10_EmptyStopEncodesHeaderOnly ==
  [][ (last'.op = "release" /\ status = "recording"
         /\ mergeBuffers(audioDataRef) = <<>>) =>
        LET blob == encodeWAV(<<>>, sampleRateRef)
        IN  /\ last'.encoded
            /\ blob.size = 44
            /\ blob.dataSize = 0
            /\ blob.pcm = <<>>
            /\ audioUrl' = ObjectURL(blob)
            /\ saveQueue' = Append(saveQueue, blob)
            /\ status' = "idle" ]_vars

\* C10 witness: the empty buffer was encoded and replaced the current
\* recording loaded from the store, which still holds the prior recording.
C10_Witness ==
  /\ last.op = "release"
  /\ last.empty
  /\ last.encoded
  /\ loadState = "done"
  /\ stored = Record(PriorBlob)
  /\ audioUrl.kind = "blob"
  /\ audioUrl.blob.dataSize = 0

\* C11: the current recording is written only by the completion of
\* stopRecording: once a stop has replaced it (the only writer before the
\* start-up load completes), no step other than a completed stop changes it,
\* so the late loadRecording callback does not put the persisted recording or
\* the default asset in its place.
C11_StopIsOnlyWriter ==
  [][ (audioUrl.kind = "blob" /\ loadState = "pending") =>
        (audioUrl' = audioUrl \/ last'.encoded) ]_vars

\* C12: a failure of feedbackStartRecording does not fail the start: the
\* processor just connected stays connected, the queued status stays
\* recording, and no error is surfaced.
C12_FeedbackNeverFails ==
  last.err = "feedbackThrows" =>
     /\ pendingStatus = "recording"
     /\ ~last.alert
     /\ last.who \in connected

\* C13: the Blob encodeWAV returns for n samples at rate R has 44 + 2n bytes
\* and its header, read little-endian at the offsets of the code, says: chunk
\* size 36 + 2n, format tag 1, one channel, sample rate R, byte rate 2R, block
\* align 2, 16 bits per sample, data chunk size 2n (0 for no samples).
C13_HeaderFields ==
  [][ last'.encoded =>
        \E b \in {view(audioUrl'.blob)}, n \in {Len(mergeBuffers(audioDataRef))},
           R \in {sampleRateRef} :
            /\ Len(b) = 44 + 2 * n
            /\ SubSeq(b, 1, 4) = RIFF
            /\ getUint32(b, 4) = 36 + 2 * n
            /\ SubSeq(b, 9, 12) = WAVE
            /\ SubSeq(b, 13, 16) = fmt
            /\ getUint32(b, 16) = 16
            /\ getUint16(b, 20) = 1
            /\ getUint16(b, 22) = 1
            /\ getUint32(b, 24) = R
            /\ getUint32(b, 28) = 2 * R
            /\ getUint16(b, 32) = 2
            /\ getUint16(b, 34) = 16
            /\ SubSeq(b, 37, 40) = data
            /\ getUint32(b, 40) = 2 * n
            /\ (n = 0 => (Len(b) = 44 /\ getUint32(b, 40) = 0)) ]_vars

\* C13 witness: a buffer of more than one sample at 48000 Hz was encoded.
C13_Witness ==
  /\ last.encoded
  /\ audioUrl.kind = "blob"
  /\ Len(mergeBuffers(audioDataRef)) >= 2
  /\ sampleRateRef = 48000
  /\ Len(view(audioUrl.blob)) = 44 + 2 * Len(mergeBuffers(audioDataRef))

\* C14: sample i of the buffer is stored as a signed 16-bit value at byte
\* offset 44 + 2i: 32767 for 1 and above, -32768 for -1 and below, 0 for 0,
\* else the sample times 32768 (negative) or 32767 (non-negative) truncated;
\* in every case within [-32768, 32767].
C14_ClampedPCM ==
  [][ last'.encoded =>
        \E b \in {view(audioUrl'.blob)}, m \in {mergeBuffers(audioDataRef)} :
            \A i \in 1..Len(m) :
              LET v == getInt16(b, 44 + 2 * (i - 1))
                  h == m[i]
              IN  /\ v \in -32768..32767
                  /\ h >= Den => v = 32767
                  /\ h <= -Den => v = -32768
                  /\ h = 0 => v = 0
                  /\ (0 < h /\ h < Den) => v = (h * 32767) \div Den
                  /\ (-Den < h /\ h < 0) => v = -((-h * 32768) \div Den) ]_vars

\* C14 witness: a buffer holding a sample above 1 and a sample below -1 was
\* encoded.
C14_Witness ==
  /\ last.encoded
  /\ audioUrl.kind = "blob"
  /\ \E i, j \in 1..Len(mergeBuffers(audioDataRef)) :
       /\ mergeBuffers(audioDataRef)[i] > Den
       /\ mergeBuffers(audioDataRef)[j] < -Den
       /\ getInt16(view(audioUrl.blob), 44 + 2 * (i - 1)) = 32767
       /\ getInt16(view(audioUrl.blob), 44 + 2 * (j - 1)) = -32768

\* C15: at most one hold timer is pending at any time, and none once a
\* release was processed.
C15_OnePendingTimer ==
  /\ Len(timers) <= 1
  /\ last.op = "release" => timers = <<>>

\* C16: a hold-timeout callback calls startRecording only when the status at
\* its dispatch is arming; dispatched with the status idle or recording it
\* does nothing.
C16_TimeoutStartsOnlyFromArming ==
  [][ (last'.op = "timeout" /\ last'.started) => status = "arming" ]_vars

\* C17: the buffer stopRecording merges holds only frames delivered by the
\* processor of the session being stopped, and the merged sequence is their
\* concatenation in arrival order.
C17_BufferIsSessionFrames ==
  [][ (last'.op = "release" /\ last'.stopCalls = 1
         /\ (last'.encoded \/ last'.threw)) =>
        /\ \A i \in 1..Len(audioDataRef) : audioDataRef[i].src = processorRef
        /\ Len(mergeBuffers(audioDataRef)) = Len(audioDataRef)
        /\ \A i \in 1..Len(audioDataRef) :
             mergeBuffers(audioDataRef)[i] = audioDataRef[i].samples[1] ]_vars

\* C18: while the status is arming (and no update of it is queued) no
\* capture is active: no acquired stream has a live track and no connected
\* processor delivers frames.
C18_ArmingHasNoCapture ==
  (status = "arming" /\ pendingStatus = "none") =>
     (liveStreams = {} /\ connected \cap openCtx = {})

\* C19: whenever the status is recording the press is still held.
C19_RecordingImpliesHolding == status = "recording" => isHoldingRef

\* status idle, no pending hold timer, no startRecording in progress and no
\* live microphone stream
Quiescent ==
  /\ status = "idle"
  /\ pendingStatus = "none"
  /\ timers = <<>>
  /\ InFlight = {}
  /\ liveStreams = {}

\* C20: if from some point on the press is released and no new press occurs,
\* then, every pending callback being eventually dispatched, the system
\* eventually reaches the quiescent state and stays in it.
C20_EventuallyQuiescent == <>[](~isHoldingRef) => <>[]Quiescent

====
